---------------------------- MODULE Spec2Model ----------------------------
(***************************************************************************)
(* RedBlue-Oracle: the feature-construction and live-inference pipeline.   *)
(*                                                                         *)
(* Times are absolute timestamps in whole seconds; a duration in minutes   *)
(* (delay_minutes, headway_minutes, the rolling means) is carried as the   *)
(* exact rational it is in the code: a number of seconds over 60, or a sum *)
(* of seconds over 60 times a count.                                       *)
(***************************************************************************)
EXTENDS Integers, Sequences, FiniteSets, TLC

VARIABLES
    now,                \* the collector's clock (datetime.now() of a poll)
    vehicle_positions,  \* table vehicle_positions, in insertion (id) order
    weather_logs,       \* table weather_logs, in insertion (id) order
    model,              \* app.py global `model`
    feature_columns,    \* app.py global `feature_columns`
    started,            \* the startup hook load_artifacts has run
    response,           \* what the last step answered, if it served a /predict
    final_df,           \* the frame extract_raw_data returned in the last step
    features_df,        \* the frame build_features wrote
    norm,               \* one normalizer call: its inputs and its results
    artifacts,          \* the model file and the feature-name file on disk,
                        \* and the train_model run that is writing them
    collector           \* real_time_collector.py main(): where it stands, the
                        \* fetch call it is in, its uncommitted inserts

vars == << now, vehicle_positions, weather_logs, model, feature_columns,
           started, response, final_df, features_df, norm, artifacts,
           collector >>

-----------------------------------------------------------------------------
(* Units and values *)

Minute == 60
Hour   == 60 * Minute
Day    == 24 * Hour

\* An optional value: None is the empty tuple, Some(x) the 1-tuple of x.
\* SQL NULL, Python None, pd.NaT and a missing float are all None.
None == << >>
Some(x) == << x >>
IsNone(o) == o = << >>
Val(o) == o[1]
NaT == None

Abs(x) == IF x < 0 THEN -x ELSE x
Min(a, b) == IF a <= b THEN a ELSE b

\* datetime.date(): the midnight that starts the calendar day of t
DateOf(t) == t - (t % Day)

\* A stored arrival_time such as "25:10:00" is the tuple of its
\* ':'-separated fields, each field Some(n) when it spells the integer n
\* and None when it spells no integer; a NULL arrival_time is None.
Str(h, m, s) == << Some(h), Some(m), Some(s) >>

\* h, m, s = map(int, val.split(':')) succeeds
ParsesHMS(val) ==
    Len(val) = 3 /\ \A k \in 1..3 : ~IsNone(val[k])

\* a constructor that accepts any three integers
ValidClockAny(h, m, s) == TRUE

\* pd.Timestamp("<date> HH:MM:SS") accepts only a wall-clock time
ValidClock(h, m, s) == h \in 0..23 /\ m \in 0..59 /\ s \in 0..59

-----------------------------------------------------------------------------
(* GTFS time normalizer, training copy: extract_dataset.py convert_gtfs_time *)

\* the loop with best_diff never updated: every candidate replaces the last
RECURSIVE TrainPickLoopNoUpdate(_, _, _, _)
TrainPickLoopNoUpdate(candidates, actual, i, best_candidate) ==
    IF i > Len(candidates) THEN best_candidate
    ELSE TrainPickLoopNoUpdate(candidates, actual, i + 1, Some(candidates[i]))

\* the loop `for cand in candidates: if diff < best_diff: ...` from index i
\* on; best_candidate is None (pd.NaT) while best_diff is float('inf')
RECURSIVE TrainPickLoop(_, _, _, _)
TrainPickLoop(candidates, actual, i, best_candidate) ==
    IF i > Len(candidates) THEN best_candidate
    ELSE LET cand == candidates[i]
             diff == Abs(actual - cand)
         IN  IF IsNone(best_candidate) \/ diff < Abs(actual - Val(best_candidate))
             THEN TrainPickLoop(candidates, actual, i + 1, Some(cand))
             ELSE TrainPickLoop(candidates, actual, i + 1, best_candidate)

\* the single-candidate heuristic: the anchor day only
TrainCandidatesAnchorOnly(base_time) ==
    << base_time >>

TrainCandidates(base_time) ==
    << base_time - Day, base_time, base_time + Day >>

\* row['scheduled_arrival'], row['actual_timestamp'] -> scheduled timestamp
convert_gtfs_time(scheduled_arrival, actual) ==
    LET val == scheduled_arrival IN
    IF IsNone(val) THEN NaT
    ELSE IF ~ParsesHMS(val) THEN NaT
    ELSE LET h0        == Val(val[1])
             days_add  == IF h0 >= 24 THEN 1 ELSE 0
             h         == IF h0 >= 24 THEN h0 - 24 ELSE h0
             m         == Val(val[2])
             s         == Val(val[3])
             base_date == DateOf(actual) + days_add * Day
             base_time == base_date + h * Hour + m * Minute + s
         IN  IF ~ValidClock(h, m, s) THEN NaT
             ELSE TrainPickLoop(TrainCandidates(base_time), actual, 1, NaT)

-----------------------------------------------------------------------------
(* GTFS time normalizer, serving copy: app.py get_latest_live_features,    *)
(* the body of `if actual and sched:` up to the choice of best_candidate   *)

RECURSIVE ServePickLoop(_, _, _, _)
ServePickLoop(candidates, actual, i, best_candidate) ==
    IF i > Len(candidates) THEN best_candidate
    ELSE LET cand == candidates[i]
             diff == Abs(actual - cand)
         IN  IF IsNone(best_candidate) \/ diff < Abs(actual - Val(best_candidate))
             THEN ServePickLoop(candidates, actual, i + 1, Some(cand))
             ELSE ServePickLoop(candidates, actual, i + 1, best_candidate)

ServeCandidates(base_time) ==
    << base_time - Day, base_time, base_time + Day >>

\* best_candidate of one fetched row (actual is Some(t) or None); None when
\* the row is skipped or the try block raises
ServeBestCandidate(sched, actual) ==
    IF IsNone(actual) \/ IsNone(sched) THEN NaT
    ELSE IF ~ParsesHMS(sched) THEN NaT
    ELSE LET h0        == Val(sched[1])
             days_add  == IF h0 >= 24 THEN 1 ELSE 0
             h         == IF h0 >= 24 THEN h0 - 24 ELSE h0
             m         == Val(sched[2])
             s         == Val(sched[3])
             base_date == DateOf(Val(actual)) + days_add * Day
             base_time == base_date + h * Hour + m * Minute + s
         IN  IF ~ValidClock(h, m, s) THEN NaT
             ELSE ServePickLoop(ServeCandidates(base_time), Val(actual), 1, NaT)

-----------------------------------------------------------------------------
(* Numbers: a float of the code is the exact rational << num, den >>,       *)
(* den > 0; a duration of n seconds is the float n / 60 minutes             *)

Rat(n, d) == << n, d >>
RatEq(a, b) == a[1] * b[2] = b[1] * a[2]
RatLess(a, b) == a[1] * b[2] < b[1] * a[2]
Zero == Rat(0, 1)
One  == Rat(1, 1)
Minutes(seconds) == Rat(seconds, Minute)

RECURSIVE Sum(_)
Sum(seq) == IF seq = << >> THEN 0 ELSE seq[1] + Sum(Tail(seq))

\* seq[:n]
Take(seq, n) == SubSeq(seq, 1, Min(n, Len(seq)))

RECURSIVE Perms(_)
Perms(S) ==
    IF S = {} THEN { << >> }
    ELSE UNION { { << x >> \o p : p \in Perms(S \ { x }) } : x \in S }

-----------------------------------------------------------------------------
(* The store: static GTFS tables and the two real-time tables (db_init.py)  *)

\* table trips
trips ==
    { [ trip_id |-> "T1", route_id |-> "Red",  direction_id |-> 0 ],
      [ trip_id |-> "T2", route_id |-> "Red",  direction_id |-> 1 ],
      [ trip_id |-> "T3", route_id |-> "Blue", direction_id |-> 0 ],
      [ trip_id |-> "T4", route_id |-> "Red",  direction_id |-> 0 ],
      [ trip_id |-> "T5", route_id |-> "Red",  direction_id |-> 1 ] }

\* table stop_times, at most one row for a trip at a stop; T4 has none and
\* the arrival_time of T5 at S2 is the string "25:60:00"
stop_times ==
    { [ trip_id |-> "T1", stop_id |-> "S1", arrival_time |-> Str(20, 0, 0) ],
      [ trip_id |-> "T2", stop_id |-> "S2", arrival_time |-> Str(26, 10, 0) ],
      [ trip_id |-> "T2", stop_id |-> "S1", arrival_time |-> Str(24, 50, 0) ],
      [ trip_id |-> "T3", stop_id |-> "S1", arrival_time |-> Str(22, 5, 0) ],
      [ trip_id |-> "T5", stop_id |-> "S1", arrival_time |-> Str(21, 0, 30) ],
      [ trip_id |-> "T5", stop_id |-> "S2", arrival_time |-> Str(25, 60, 0) ] }

\* the first poll of the collector happens one period after StartClock
StartClock == 2 * Day + 20 * Hour
PollPeriod == 2 * Hour
MaxPolls   == 3

\* ... LEFT JOIN stop_times st ON vp.trip_id = st.trip_id AND vp.stop_id = st.stop_id
ScheduledArrival(vp) ==
    LET st == { r \in stop_times : r.trip_id = vp.trip_id /\ r.stop_id = vp.stop_id }
    IN  IF st = {} THEN None ELSE (CHOOSE r \in st : TRUE).arrival_time

\* ... LEFT JOIN trips t ON vp.trip_id = t.trip_id : the trips row, or None
TripOf(vp) ==
    LET t == { r \in trips : r.trip_id = vp.trip_id }
    IN  IF t = {} THEN None ELSE Some(CHOOSE r \in t : TRUE)

\* the value of `response` after a step that served no request
NoResponse ==
    [ status |-> "none", queries |-> 0, req |-> None, clock |-> 0,
      rows |-> << >>, live |-> None, columns |-> << >>, input_array |-> << >>,
      health |-> None ]

-----------------------------------------------------------------------------
(* Collector: real_time_collector.py get_vehicle_positions, get_weather     *)

RECURSIVE Pow(_, _)
Pow(b, n) == IF n = 0 THEN 1 ELSE b * Pow(b, n - 1)

\* what a call did so far: an HTTP attempt with its payload (None when it
\* raised RequestException), or a time.sleep
Get(outcome)   == [ kind |-> "get", payload |-> outcome, seconds |-> 0 ]
Sleep(seconds) == [ kind |-> "sleep", payload |-> None, seconds |-> seconds ]

\* no call in progress; a call of one of the two functions before its loop;
\* result is None until the call returns
NoCall ==
    [ endpoint |-> "none", retries |-> 0, backoff |-> 0, attempt |-> 0,
      events |-> << >>, result |-> None ]
Call(endpoint, retries, backoff) ==
    [ NoCall EXCEPT !.endpoint = endpoint, !.retries = retries, !.backoff = backoff ]

\* `return []` of get_vehicle_positions and `return {}` of get_weather
EmptyPayload(endpoint) == IF endpoint = "vehicles" THEN << >> ELSE None

\* one pass of the loop that sleeps after its last failure as well
AttemptSleepsAlways(call, outcome) ==
    IF ~IsNone(outcome)
    THEN [ call EXCEPT !.events = Append(@, Get(outcome)), !.result = outcome ]
    ELSE IF call.attempt < call.retries - 1
    THEN [ call EXCEPT !.events = @ \o << Get(None), Sleep(Pow(call.backoff, call.attempt)) >>,
                       !.attempt = @ + 1 ]
    ELSE [ call EXCEPT !.events = @ \o << Get(None), Sleep(Pow(call.backoff, call.attempt)) >>,
                       !.result = Some(EmptyPayload(call.endpoint)) ]

\* one pass of `for attempt in range(retries)`: outcome is None when
\* requests.get or raise_for_status raises RequestException and
\* Some(response.json().get(key, empty)) otherwise
Attempt(call, outcome) ==
    IF ~IsNone(outcome)
    THEN [ call EXCEPT !.events = Append(@, Get(outcome)), !.result = outcome ]
    ELSE IF call.attempt < call.retries - 1
    THEN [ call EXCEPT !.events = @ \o << Get(None), Sleep(Pow(call.backoff, call.attempt)) >>,
                       !.attempt = @ + 1 ]
    ELSE [ call EXCEPT !.events = Append(@, Get(None)),
                       !.result = Some(EmptyPayload(call.endpoint)) ]

\* main() before its first poll: pc is where main() stands, vehicles and
\* weather what the two calls returned, timestamp and uncommitted belong to
\* the open connection, polls is what each log_data_to_db call so far was
\* given and whether its transaction was committed
NoPoll ==
    [ pc |-> "idle", call |-> NoCall, vehicles |-> << >>, weather |-> None,
      timestamp |-> 0, executed |-> 0,
      uncommitted |-> [ weather_logs |-> << >>, vehicle_positions |-> << >> ],
      polls |-> << >> ]

\* the next pass of the loop of a get_vehicle_positions call
get_vehicle_positions(outcome) ==
    /\ collector.call.endpoint = "vehicles"
    /\ IsNone(collector.call.result)
    /\ collector.call.attempt < collector.call.retries
    /\ collector' = [ collector EXCEPT !.call = Attempt(@, outcome) ]
    /\ UNCHANGED << now, vehicle_positions, weather_logs, model, feature_columns,
                    started, response, final_df, features_df, norm, artifacts >>

\* the next pass of the loop of a get_weather call
get_weather(outcome) ==
    /\ collector.call.endpoint = "weather"
    /\ IsNone(collector.call.result)
    /\ collector.call.attempt < collector.call.retries
    /\ collector' = [ collector EXCEPT !.call = Attempt(@, outcome) ]
    /\ UNCHANGED << now, vehicle_positions, weather_logs, model, feature_columns,
                    started, response, final_df, features_df, norm, artifacts >>

-----------------------------------------------------------------------------
(* Collector: real_time_collector.py log_data_to_db                         *)

\* one row of vehicle_positions for the vehicle v of the API payload
VehicleRow(v, timestamp) ==
    [ trip_id |-> v.trip_id, stop_id |-> v.stop_id,
      current_status |-> v.current_status, timestamp |-> timestamp ]

WeatherRow(weather, timestamp) ==
    [ timestamp |-> timestamp, temp |-> weather.temperature,
      precip_mm |-> weather.precipitation, wind_speed |-> weather.windspeed ]

\* one poll, PollPeriod after the last: vehicles is the list fetched from the
\* vehicles API, weather None ({}) or Some(current weather)
LogData(vehicles, weather) ==
    LET timestamp == now + PollPeriod IN
    /\ now < StartClock + MaxPolls * PollPeriod
    /\ now' = timestamp
    /\ IF vehicles = << >> /\ IsNone(weather)
       THEN UNCHANGED << vehicle_positions, weather_logs >>
       ELSE /\ weather_logs' =
                 IF IsNone(weather) THEN weather_logs
                 ELSE Append(weather_logs, WeatherRow(Val(weather), timestamp))
            /\ vehicle_positions' =
                 vehicle_positions \o
                   [ k \in 1..Len(vehicles) |-> VehicleRow(vehicles[k], timestamp) ]
    /\ response' = NoResponse
    /\ final_df' = None
    /\ UNCHANGED << model, feature_columns, started, features_df, norm,
                    artifacts,
                    collector >>

-----------------------------------------------------------------------------
(* Collector: main() step by step, log_data_to_db statement by statement.   *)
(* vehicle_positions and weather_logs hold the committed rows, which are    *)
(* the rows any other connection reads.                                     *)

DefaultRetries == 3
DefaultBackoff == 2

\* main() is invoked, one period after the last time
main ==
    /\ collector.pc = "idle"
    /\ now < StartClock + MaxPolls * PollPeriod
    /\ now' = now + PollPeriod
    /\ collector' = [ collector EXCEPT
                        !.pc = "vehicles",
                        !.call = Call("vehicles", DefaultRetries, DefaultBackoff) ]
    /\ UNCHANGED << vehicle_positions, weather_logs, model, feature_columns,
                    started, response, final_df, features_df, norm, artifacts >>

\* vehicles = get_vehicle_positions() has returned; get_weather() is called
main_vehicles ==
    /\ collector.pc = "vehicles"
    /\ ~IsNone(collector.call.result)
    /\ collector' = [ collector EXCEPT
                        !.pc = "weather",
                        !.vehicles = Val(collector.call.result),
                        !.call = Call("weather", DefaultRetries, DefaultBackoff) ]
    /\ UNCHANGED << now, vehicle_positions, weather_logs, model, feature_columns,
                    started, response, final_df, features_df, norm, artifacts >>

\* weather = get_weather() has returned; log_data_to_db is called
main_weather ==
    /\ collector.pc = "weather"
    /\ ~IsNone(collector.call.result)
    /\ collector' = [ collector EXCEPT
                        !.pc = "log",
                        !.weather = Val(collector.call.result),
                        !.call = NoCall ]
    /\ UNCHANGED << now, vehicle_positions, weather_logs, model, feature_columns,
                    started, response, final_df, features_df, norm, artifacts >>

\* what a log_data_to_db call leaves behind when it returns: the connection
\* is closed, and what it had not committed is gone with it
Logged(committed) ==
    [ collector EXCEPT
        !.pc = "idle",
        !.executed = 0,
        !.uncommitted = [ weather_logs |-> << >>, vehicle_positions |-> << >> ],
        !.polls = Append(@, [ timestamp |-> now,
                              vehicles  |-> collector.vehicles,
                              weather   |-> collector.weather,
                              committed |-> committed ]) ]

\* `if not vehicles and not weather: return`
LogNothing ==
    /\ collector.pc = "log"
    /\ collector.vehicles = << >> /\ IsNone(collector.weather)
    /\ collector' = Logged(FALSE)
    /\ UNCHANGED << now, vehicle_positions, weather_logs, model, feature_columns,
                    started, response, final_df, features_df, norm, artifacts >>

\* psycopg2.connect, conn.cursor() and timestamp = datetime.now(); when
\* connect raises, conn is None and the call returns
LogConnect(connected) ==
    /\ collector.pc = "log"
    /\ ~(collector.vehicles = << >> /\ IsNone(collector.weather))
    /\ collector' = IF connected
                    THEN [ collector EXCEPT !.pc = "insert", !.timestamp = now ]
                    ELSE Logged(FALSE)
    /\ UNCHANGED << now, vehicle_positions, weather_logs, model, feature_columns,
                    started, response, final_df, features_df, norm, artifacts >>

\* the INSERT statements of the call, in the order it executes them
Inserts ==
    (IF IsNone(collector.weather) THEN << >>
     ELSE << [ table |-> "weather_logs",
               row |-> WeatherRow(Val(collector.weather), collector.timestamp) ] >>)
    \o [ k \in 1..Len(collector.vehicles) |->
           [ table |-> "vehicle_positions",
             row |-> VehicleRow(collector.vehicles[k], collector.timestamp) ] ]

\* an INSERT on a connection in autocommit mode: the row is committed at once
ExecutedAutocommit(tables, uncommitted, insert) ==
    [ tables |-> [ tables EXCEPT ![insert.table] = Append(@, insert.row) ],
      uncommitted |-> uncommitted ]

\* cur.execute of an INSERT: psycopg2 opens a transaction with the first
\* statement, and the row waits in it for conn.commit()
Executed(tables, uncommitted, insert) ==
    [ tables |-> tables,
      uncommitted |-> [ uncommitted EXCEPT ![insert.table] = Append(@, insert.row) ] ]

\* the next cur.execute; when it raises (or the building of its arguments
\* does), the except branch rolls back and the call returns
LogInsert(ok) ==
    /\ collector.pc = "insert"
    /\ collector.executed < Len(Inserts)
    /\ IF ok
       THEN LET after == Executed([ weather_logs |-> weather_logs,
                                    vehicle_positions |-> vehicle_positions ],
                                  collector.uncommitted,
                                  Inserts[collector.executed + 1])
            IN  /\ weather_logs' = after.tables.weather_logs
                /\ vehicle_positions' = after.tables.vehicle_positions
                /\ collector' = [ collector EXCEPT !.executed = @ + 1,
                                                   !.uncommitted = after.uncommitted ]
       ELSE /\ collector' = Logged(FALSE)
            /\ UNCHANGED << vehicle_positions, weather_logs >>
    /\ UNCHANGED << now, model, feature_columns, started, response, final_df,
                    features_df, norm, artifacts >>

\* conn.commit() after the last INSERT; when it raises, the except branch
\* rolls back
LogCommit(ok) ==
    /\ collector.pc = "insert"
    /\ collector.executed = Len(Inserts)
    /\ IF ok
       THEN /\ weather_logs' = weather_logs \o collector.uncommitted.weather_logs
            /\ vehicle_positions' =
                  vehicle_positions \o collector.uncommitted.vehicle_positions
       ELSE UNCHANGED << vehicle_positions, weather_logs >>
    /\ collector' = Logged(ok)
    /\ UNCHANGED << now, model, feature_columns, started, response, final_df,
                    features_df, norm, artifacts >>
-----------------------------------------------------------------------------
(* Serving: app.py get_latest_live_features                                 *)

RecentLimit     == 5      \* ORDER BY vp.timestamp DESC LIMIT 5
PlausibleLimit  == 300    \* abs(delay_minutes) < 300
HeadwayDefault  == 10     \* headway_minutes = 10.0
HeadwayCap      == 120    \* min(elapsed, 120.0)
DefaultTemp     == 15     \* else 15.0
DefaultPrecip   == 0      \* else 0.0
DefaultWind     == 5      \* else 5.0

\* ids of the rows the performance query selects:
\* WHERE t.route_id = %s AND vp.current_status = 'STOPPED_AT'
PerformanceMatches(route_id) ==
    { i \in 1..Len(vehicle_positions) :
        /\ vehicle_positions[i].current_status = "STOPPED_AT"
        /\ ~IsNone(TripOf(vehicle_positions[i]))
        /\ Val(TripOf(vehicle_positions[i])).route_id = route_id }

\* every order of the ids M that ORDER BY vp.timestamp DESC allows: rows of
\* one timestamp come in an order the store chooses
RECURSIVE DescOrders(_)
DescOrders(M) ==
    IF M = {} THEN { << >> }
    ELSE LET newest == CHOOSE i \in M :
                          \A j \in M : vehicle_positions[j].timestamp
                                          <= vehicle_positions[i].timestamp
             G == { i \in M : vehicle_positions[i].timestamp
                                 = vehicle_positions[newest].timestamp }
         IN  { p \o rest : p \in Perms(G), rest \in DescOrders(M \ G) }

\* cur.fetchall(): the possible results, each a list of
\* (stop_id, actual_timestamp, scheduled_arrival)
PerformanceQuery(route_id) ==
    { [ k \in 1..Len(Take(ids, RecentLimit)) |->
          [ stop_id  |-> vehicle_positions[ids[k]].stop_id,
            actual   |-> Some(vehicle_positions[ids[k]].timestamp),
            sched    |-> ScheduledArrival(vehicle_positions[ids[k]]) ] ]
      : ids \in DescOrders(PerformanceMatches(route_id)) }

\* the same query ordered by timestamp ASC
WeatherQueryOldest ==
    IF weather_logs = << >> THEN None
    ELSE Some(CHOOSE w \in { weather_logs[i] : i \in 1..Len(weather_logs) } :
                \A i \in 1..Len(weather_logs) : w.timestamp <= weather_logs[i].timestamp)

\* SELECT ... FROM weather_logs ORDER BY timestamp DESC LIMIT 1
WeatherQuery ==
    IF weather_logs = << >> THEN None
    ELSE Some(CHOOSE w \in { weather_logs[i] : i \in 1..Len(weather_logs) } :
                \A i \in 1..Len(weather_logs) : weather_logs[i].timestamp <= w.timestamp)

\* the delay in seconds the loop body appends for one row, None when the
\* row appends nothing
ServeDelay(row) ==
    LET best_candidate == ServeBestCandidate(row.sched, row.actual) IN
    IF IsNone(best_candidate) THEN None
    ELSE LET delay == Val(row.actual) - Val(best_candidate)
         IN  IF Abs(delay) < PlausibleLimit * Minute THEN Some(delay) ELSE None

\* the list `delays` after the loop over rows, in seconds
RECURSIVE ServeDelays(_)
ServeDelays(rows) ==
    IF rows = << >> THEN << >>
    ELSE ServeDelay(rows[1]) \o ServeDelays(Tail(rows))

\* last_seen_at_station after the loop over rows
RECURSIVE LastSeenAtStation(_, _)
LastSeenAtStation(rows, stop_id) ==
    IF rows = << >> THEN None
    ELSE IF rows[1].stop_id = stop_id /\ ~IsNone(rows[1].actual) THEN rows[1].actual
    ELSE LastSeenAtStation(Tail(rows), stop_id)

\* the mean of every plausible delay of the window
CongestionOfAll(delays) ==
    IF delays = << >> THEN Zero
    ELSE Rat(Sum(delays), Minute * Len(delays))

Congestion(delays) ==
    IF delays = << >> THEN Zero
    ELSE IF Len(delays) >= 3
         THEN Rat(Sum(Take(delays, 3)), Minute * Len(Take(delays, 3)))
         ELSE Rat(Sum(delays), Minute * Len(delays))

UpstreamDelay(delays) ==
    IF delays = << >> THEN Zero
    ELSE IF Len(delays) >= 2
         THEN Rat(Sum(Take(delays, 2)), Minute * Len(Take(delays, 2)))
         ELSE Rat(Sum(delays), Minute * Len(delays))

\* the elapsed minutes with no cap
HeadwayUncapped(last_seen_at_station, clock) ==
    IF IsNone(last_seen_at_station) THEN Rat(HeadwayDefault, 1)
    ELSE Minutes(clock - Val(last_seen_at_station))

Headway(last_seen_at_station, clock) ==
    IF IsNone(last_seen_at_station) THEN Rat(HeadwayDefault, 1)
    ELSE LET elapsed == Minutes(clock - Val(last_seen_at_station))
         IN  IF RatLess(Rat(HeadwayCap, 1), elapsed) THEN Rat(HeadwayCap, 1) ELSE elapsed

\* the returned tuple, for the fetched weather row, the fetched performance
\* rows and the value clock of datetime.now()
get_latest_live_features(df_weather, rows, stop_id, clock) ==
    [ temp       |-> IF IsNone(df_weather) THEN Rat(DefaultTemp, 1)
                     ELSE Rat(Val(df_weather).temp, 1),
      precip_mm  |-> IF IsNone(df_weather) THEN Rat(DefaultPrecip, 1)
                     ELSE Rat(Val(df_weather).precip_mm, 1),
      wind_speed |-> IF IsNone(df_weather) THEN Rat(DefaultWind, 1)
                     ELSE Rat(Val(df_weather).wind_speed, 1),
      congestion |-> Congestion(ServeDelays(rows)),
      headway_minutes |-> Headway(LastSeenAtStation(rows, stop_id), clock),
      upstream_delay  |-> UpstreamDelay(ServeDelays(rows)) ]

-----------------------------------------------------------------------------
(* Serving: app.py load_artifacts and predict_delay                         *)

\* A column name is the pair << prefix, rest >>: prefix is "route_id_" or
\* "direction_id_" when the name starts with it and "" otherwise, rest is
\* what follows the prefix.
Name(prefix, rest) == << prefix, rest >>
Plain(name) == Name("", name)
StartsWith(col, prefix) == col[1] = prefix

\* the characters of a column name, and the column name a text spells
Text(col) == col[1] \o col[2]
HasPrefix(text, prefix) ==
    Len(text) >= Len(prefix) /\ SubSeq(text, 1, Len(prefix)) = prefix
Column(text) ==
    IF HasPrefix(text, "route_id_")
    THEN Name("route_id_", SubSeq(text, Len("route_id_") + 1, Len(text)))
    ELSE IF HasPrefix(text, "direction_id_")
    THEN Name("direction_id_", SubSeq(text, Len("direction_id_") + 1, Len(text)))
    ELSE Plain(text)

\* str.strip(): the text without the white space at its two ends
IsSpace(c) == c \in { " ", "\t", "\r", "\n" }
Strip(text) ==
    LET inked == { i \in 1..Len(text) : ~IsSpace(SubSeq(text, i, i)) }
    IN  IF inked = { } THEN ""
        ELSE SubSeq(text, CHOOSE i \in inked : \A j \in inked : i <= j,
                          CHOOSE i \in inked : \A j \in inked : i >= j)

\* str.splitlines(): a line ends at "\n", and an empty last line is no line
SplitLines(text) ==
    LET breaks  == { i \in 1..Len(text) : SubSeq(text, i, i) = "\n" }
        ends    == breaks \cup { Len(text) + 1 }
        EndOf(k) == CHOOSE i \in ends : Cardinality({ j \in ends : j < i }) = k - 1
        StartOf(k) == IF k = 1 THEN 1 ELSE EndOf(k - 1) + 1
        lines   == [ k \in 1..Cardinality(ends) |->
                       SubSeq(text, StartOf(k), EndOf(k) - 1) ]
    IN  IF lines[Len(lines)] = "" THEN SubSeq(lines, 1, Len(lines) - 1) ELSE lines

\* [line.strip() for line in f.read().splitlines() if line.strip()]
ReadFeatureLines(text) ==
    LET kept == SelectSeq(SplitLines(text), LAMBDA line : Strip(line) # "")
    IN  [ k \in 1..Len(kept) |-> Column(Strip(kept[k])) ]

\* " ".join(names): one line holding every name
RECURSIVE JoinWithSpaces(_)
JoinWithSpaces(names) ==
    IF names = << >> THEN ""
    ELSE IF Len(names) = 1 THEN names[1]
    ELSE names[1] \o " " \o JoinWithSpaces(Tail(names))

\* "\n".join(names)
RECURSIVE JoinLines(_)
JoinLines(names) ==
    IF names = << >> THEN ""
    ELSE IF Len(names) = 1 THEN names[1]
    ELSE names[1] \o "\n" \o JoinLines(Tail(names))

\* f.write("\n".join(X.columns)): the text of the feature-name file
FileOf(columns) == JoinLines([ k \in 1..Len(columns) |-> Text(columns[k]) ])

\* the startup hook: model_file is None when joblib.load raises and
\* Some(regressor) otherwise, features_file None when open() raises and
\* Some(lines) otherwise; the first raise ends the try block
load_artifacts(model_file, features_file) ==
    /\ ~started
    /\ started' = TRUE
    /\ IF IsNone(model_file)
       THEN UNCHANGED << model, feature_columns >>
       ELSE /\ model' = model_file
            /\ IF IsNone(features_file)
               THEN UNCHANGED feature_columns
               ELSE feature_columns' = ReadFeatureLines(Val(features_file))
    /\ UNCHANGED << now, vehicle_positions, weather_logs, response, final_df,
                    features_df, norm,
                    artifacts,
                    collector >>

\* datetime.now() of the serving process: day 0 of the epoch is a Monday
HourOf(clock)    == (clock % Day) \div Hour
WeekdayOf(clock) == (clock \div Day) % 7

\* feature_dict of predict_delay, as a function on its ten keys
FeatureDict(clock, live) ==
    LET hour        == HourOf(clock)
        day_of_week == WeekdayOf(clock)
        is_weekend  == IF day_of_week \in { 5, 6 } THEN 1 ELSE 0
        is_rush_hour == IF (hour >= 7 /\ hour <= 9) \/ (hour >= 16 /\ hour <= 18)
                        THEN 1 ELSE 0
    IN  ( Plain("hour_of_day")  :> Rat(hour, 1)        @@
          Plain("day_of_week")  :> Rat(day_of_week, 1) @@
          Plain("is_weekend")   :> Rat(is_weekend, 1)  @@
          Plain("is_rush_hour") :> Rat(is_rush_hour, 1) @@
          Plain("temp")         :> live.temp           @@
          Plain("precip_mm")    :> live.precip_mm      @@
          Plain("wind_speed")   :> live.wind_speed     @@
          Plain("rolling_congestion_3_trains") :> live.congestion @@
          Plain("headway_minutes")             :> live.headway_minutes @@
          Plain("rolling_upstream_delay")      :> live.upstream_delay )

\* f"{float(direction_id)}"
FloatStr(n) == ToString(n) \o ".0"

\* [c for c in feature_columns if c.startswith('route_id_')]
RouteColumns(columns) == SelectSeq(columns, LAMBDA c : StartsWith(c, "route_id_"))

InSeq(x, seq) == \E k \in 1..Len(seq) : seq[k] = x

\* no fallback: the requested route's column name, in the list or not
TargetRouteAsRequested(columns, route_id) ==
    Name("route_id_", route_id)

\* target_route after the fallback of lines 186-188
TargetRoute(columns, route_id) ==
    LET target_route  == Name("route_id_", route_id)
        route_columns == RouteColumns(columns)
    IN  IF ~InSeq(target_route, route_columns) /\ Len(route_columns) > 0
        THEN route_columns[1]
        ELSE target_route

TargetDir(direction_id) == Name("direction_id_", FloatStr(direction_id))

\* the loop without its last branch: a column of no known kind appends nothing
InputArrayKnownOnly(columns, feature_dict, route_id, direction_id) ==
    LET known == SelectSeq(columns, LAMBDA c :
                     c \in DOMAIN feature_dict \/ StartsWith(c, "route_id_")
                        \/ StartsWith(c, "direction_id_"))
    IN  [ k \in 1..Len(known) |->
            IF known[k] \in DOMAIN feature_dict THEN feature_dict[known[k]]
            ELSE IF known[k] = Name("route_id_", route_id) THEN One
            ELSE IF known[k] = Name("direction_id_", FloatStr(direction_id)) THEN One
            ELSE Zero ]

\* the loop with the prefix test before the target tests: every one-hot
\* column is 0.0
InputArrayPrefixFirst(columns, feature_dict, route_id, direction_id) ==
    [ k \in 1..Len(columns) |->
        IF columns[k] \in DOMAIN feature_dict THEN feature_dict[columns[k]]
        ELSE Zero ]

\* input_array: the loop `for col in feature_columns`
InputArray(columns, feature_dict, route_id, direction_id) ==
    LET target_route == TargetRoute(columns, route_id)
        target_dir   == TargetDir(direction_id)
    IN  [ k \in 1..Len(columns) |->
            LET col == columns[k] IN
            IF col \in DOMAIN feature_dict THEN feature_dict[col]
            ELSE IF col = target_route THEN One
            ELSE IF col = target_dir THEN One
            ELSE IF StartsWith(col, "route_id_") \/ StartsWith(col, "direction_id_")
                 THEN Zero
            ELSE Zero ]

\* a request that finds the model loaded goes on to the store
ModelIsNoneSkipped == FALSE

\* `if model is None:`
ModelIsNone == IsNone(model)

ModelNotLoaded == "HTTPException 500: Model is not loaded."

\* POST /predict with body req, served when the process clock reads
\* now + lag; rows is the result the store returns for the performance
\* query. The handler is synchronous: it runs when no answer is pending.
predict_delay(req, lag) ==
    /\ started
    /\ response = NoResponse
    /\ IF ModelIsNone
       THEN response' = [ NoResponse EXCEPT !.status = ModelNotLoaded,
                                             !.req = Some(req) ]
       ELSE \E rows \in PerformanceQuery(req.route_id) :
            LET clock == now + lag
                live  == get_latest_live_features(WeatherQuery, rows, req.stop_id, clock)
            IN  response' =
                  [ status  |-> "200",
                    queries |-> 2,
                    req     |-> Some(req),
                    clock   |-> clock,
                    rows    |-> rows,
                    live    |-> Some(live),
                    columns |-> feature_columns,
                    input_array |-> InputArray(feature_columns, FeatureDict(clock, live),
                                               req.route_id, req.direction_id),
                    health  |-> None ]
    /\ UNCHANGED << now, vehicle_positions, weather_logs, model, feature_columns,
                    started, final_df, features_df, norm,
                    artifacts,
                    collector >>

\* GET /
health_check ==
    /\ started
    /\ response = NoResponse
    /\ response' = [ NoResponse EXCEPT
                       !.status = "200",
                       !.health = Some([ status |-> "healthy",
                                         model_loaded |-> ~IsNone(model) ]) ]
    /\ UNCHANGED << now, vehicle_positions, weather_logs, model, feature_columns,
                    started, final_df, features_df, norm,
                    artifacts,
                    collector >>

\* direction_id: int of PredictionRequest: the body field spells an integer
ParsesInt(field) == field \in { "0", "1", "2", "-1" }

ValidationError == "422 Unprocessable Entity"

\* POST /predict with a body that PredictionRequest does not validate: the
\* framework answers before the handler runs
RequestValidationError(body) ==
    /\ started
    /\ response = NoResponse
    /\ ~ParsesInt(body.direction_id)
    /\ response' = [ NoResponse EXCEPT !.status = ValidationError ]
    /\ UNCHANGED << now, vehicle_positions, weather_logs, model, feature_columns,
                    started, final_df, features_df, norm,
                    artifacts,
                    collector >>

\* the answer leaves the process
Deliver ==
    /\ response # NoResponse
    /\ response' = NoResponse
    /\ UNCHANGED << now, vehicle_positions, weather_logs, model, feature_columns,
                    started, final_df, features_df, norm,
                    artifacts,
                    collector >>

-----------------------------------------------------------------------------
(* Training: extract_dataset.py extract_raw_data                            *)

TzShiftHours     == 5     \* actual_timestamp - pd.Timedelta(hours=5)
ToleranceMinutes == 60    \* tolerance=pd.Timedelta('60min')

\* ids of the rows of df_vehicles: WHERE vp.current_status = 'STOPPED_AT'
VehicleQuery ==
    { i \in DOMAIN vehicle_positions :
        vehicle_positions[i].current_status = "STOPPED_AT" }

SameTripStop(i, j) ==
    /\ vehicle_positions[i].trip_id = vehicle_positions[j].trip_id
    /\ vehicle_positions[i].stop_id = vehicle_positions[j].stop_id

\* drop_duplicates(subset=['trip_id', 'stop_id'], keep='first') keeps of each
\* group the row the query returned first. The query has no ORDER BY, and of
\* the order it returns only the first row of each group matters to what
\* follows: the possible outcomes are the sets holding one row of each group.
DropDuplicates(ids) ==
    { K \in SUBSET ids :
        \A i \in ids : Cardinality({ k \in K : SameTripStop(i, k) }) = 1 }

\* pd.merge_asof(..., direction='nearest', tolerance=60min) for the left key
\* t: the last snapshot at or before t and the first at or after t, each
\* only within the tolerance; of two, the earlier unless the later is nearer
MergeAsofNearest(t) ==
    LET W == { weather_logs[k] : k \in DOMAIN weather_logs }
        tolerance == ToleranceMinutes * Minute
        back == { w \in W : w.timestamp <= t /\ t - w.timestamp <= tolerance
                            /\ \A v \in W : v.timestamp <= t => v.timestamp <= w.timestamp }
        forw == { w \in W : w.timestamp >= t /\ w.timestamp - t <= tolerance
                            /\ \A v \in W : v.timestamp >= t => v.timestamp >= w.timestamp }
    IN  IF back # {} /\ forw # {}
        THEN LET b == CHOOSE w \in back : TRUE
                 f == CHOOSE w \in forw : TRUE
             IN  IF t - b.timestamp <= f.timestamp - t THEN Some(b) ELSE Some(f)
        ELSE IF back # {} THEN Some(CHOOSE w \in back : TRUE)
        ELSE IF forw # {} THEN Some(CHOOSE w \in forw : TRUE)
        ELSE None

\* scheduled minus actual
DelayMinutesReversed(actual_timestamp, scheduled_timestamp) ==
    Minutes(scheduled_timestamp - actual_timestamp)

\* (actual_timestamp - scheduled_timestamp).dt.total_seconds() / 60.0
DelayMinutes(actual_timestamp, scheduled_timestamp) ==
    Minutes(actual_timestamp - scheduled_timestamp)

\* the row of final_df for the stored row i, None when a dropna drops it
FinalRow(i) ==
    LET vp == vehicle_positions[i]
        actual_timestamp == vp.timestamp - TzShiftHours * Hour
        scheduled_timestamp == convert_gtfs_time(ScheduledArrival(vp), actual_timestamp)
        weather == MergeAsofNearest(actual_timestamp)
    IN  IF IsNone(scheduled_timestamp) THEN None
        ELSE IF IsNone(weather) THEN None
        ELSE Some([ trip_id |-> vp.trip_id,
                    stop_id |-> vp.stop_id,
                    route_id |-> IF IsNone(TripOf(vp)) THEN None
                                 ELSE Some(Val(TripOf(vp)).route_id),
                    direction_id |-> IF IsNone(TripOf(vp)) THEN None
                                     ELSE Some(Val(TripOf(vp)).direction_id),
                    actual_timestamp |-> actual_timestamp,
                    scheduled_timestamp |-> Val(scheduled_timestamp),
                    delay_minutes |-> DelayMinutes(actual_timestamp,
                                                   Val(scheduled_timestamp)),
                    timestamp |-> Val(weather).timestamp,
                    temp |-> Val(weather).temp ])

\* one run of extract_raw_data; final_df is Some(the set of its rows), and
\* None when the function returns None
extract_raw_data ==
    /\ IF VehicleQuery = {}
       THEN final_df' = None
       ELSE \E K \in DropDuplicates(VehicleQuery) :
              final_df' = Some({ Val(FinalRow(i)) : i \in { k \in K : ~IsNone(FinalRow(k)) } })
    /\ response' = NoResponse
    /\ UNCHANGED << now, vehicle_positions, weather_logs, model, feature_columns,
                    started, features_df, norm,
                    artifacts,
                    collector >>

-----------------------------------------------------------------------------
(* Training: build_features.py build_features                               *)

\* ids in the order sort_values gives them
TripIds == << "T1", "T2", "T3", "T4", "T5", "T6" >>
StopIds == << "S1", "S2" >>
Rank(ids, id) == CHOOSE k \in DOMAIN ids : ids[k] = id

\* q comes before r after sort_values(by=['trip_id', 'actual_timestamp']) and
\* then the stable sort_values(by=['stop_id', 'actual_timestamp'])
SortsBefore(q, r) ==
    \/ Rank(StopIds, q.stop_id) < Rank(StopIds, r.stop_id)
    \/ /\ q.stop_id = r.stop_id
       /\ \/ q.actual_timestamp < r.actual_timestamp
          \/ /\ q.actual_timestamp = r.actual_timestamp
             /\ Rank(TripIds, q.trip_id) < Rank(TripIds, r.trip_id)

RECURSIVE SumOfDelays(_)
SumOfDelays(R) ==
    IF R = {} THEN 0
    ELSE LET r == CHOOSE x \in R : TRUE
         IN  r.delay_minutes[1] + SumOfDelays(R \ { r })

\* the rows the window of r averages: every row of r's stop sorted before r
RollingWindowNoLimit(df, r) ==
    { q \in df : q.stop_id = r.stop_id /\ SortsBefore(q, r) }

\* the rows the window of r averages: x.shift(1).rolling(window=3), the
\* last three of the rows of r's stop sorted before r
RollingWindow(df, r) ==
    LET before == { q \in df : q.stop_id = r.stop_id /\ SortsBefore(q, r) }
    IN  { q \in before : Cardinality({ x \in before : SortsBefore(q, x) }) < 3 }

\* groupby('stop_id')['delay_minutes'].transform(... .mean()), then fillna(0)
RollingCongestion(df, r) ==
    LET window == RollingWindow(df, r)
    IN  IF window = {} THEN Zero
        ELSE Rat(SumOfDelays(window), Minute * Cardinality(window))

\* one run of build_features on the frame extract_raw_data saved: the rows
\* of df_final in their sorted order
build_features ==
    /\ ~IsNone(final_df)
    /\ IsNone(features_df)
    /\ LET df == Val(final_df)
           Position(r) == 1 + Cardinality({ q \in df : SortsBefore(q, r) })
       IN  features_df' =
             Some([ p \in 1..Cardinality(df) |->
                      LET r == CHOOSE x \in df : Position(x) = p
                      IN  [ trip_id |-> r.trip_id,
                            stop_id |-> r.stop_id,
                            actual_timestamp |-> r.actual_timestamp,
                            rolling_congestion_3_trains |-> RollingCongestion(df, r),
                            delay_minutes |-> r.delay_minutes ] ])
    /\ UNCHANGED << now, vehicle_positions, weather_logs, model, feature_columns,
                    started, response, final_df, norm,
                    artifacts,
                    collector >>

-----------------------------------------------------------------------------
(* Training: train.py train_model, the two files it leaves                  *)

\* no file on disk, no run started
NoArtifacts ==
    [ model_file |-> None, features_file |-> None, runs |-> 0, writing |-> None ]

\* the regressor the run fits
ModelOf(run) == << "XGBRegressor", run >>

\* X.columns of the run: with each run the data holds one more route, and
\* get_dummies orders the routes by name, the directions after them
RunRoutes == << "Blue", "Green-B", "Orange", "Red" >>
ColumnsOfRun(run) ==
    << Plain("hour_of_day"), Plain("day_of_week"), Plain("is_weekend"),
       Plain("is_rush_hour"), Plain("temp"), Plain("precip_mm"),
       Plain("wind_speed"), Plain("rolling_congestion_3_trains") >>
    \o [ k \in 1..run |-> Name("route_id_", RunRoutes[k]) ]
    \o << Name("direction_id_", "0.0"), Name("direction_id_", "1.0") >>

MaxRuns == 3

\* joblib.dump(model, model_output_path) of the next run
SaveModel ==
    /\ IsNone(artifacts.writing)
    /\ artifacts.runs < MaxRuns
    /\ artifacts' = [ artifacts EXCEPT !.runs = @ + 1,
                                        !.model_file = Some(ModelOf(artifacts.runs + 1)),
                                        !.writing = Some(artifacts.runs + 1) ]
    /\ UNCHANGED << now, vehicle_positions, weather_logs, model, feature_columns,
                    started, response, final_df, features_df, norm,
                    collector >>

\* with open(feature_names_path, 'w') as f: f.write("\n".join(X.columns))
SaveFeatureNames ==
    /\ ~IsNone(artifacts.writing)
    /\ artifacts' =
         [ artifacts EXCEPT
             !.features_file = Some(FileOf(ColumnsOfRun(Val(artifacts.writing)))),
             !.writing = None ]
    /\ UNCHANGED << now, vehicle_positions, weather_logs, model, feature_columns,
                    started, response, final_df, features_df, norm,
                    collector >>

\* the training process dies between the two writes
TrainCrash ==
    /\ ~IsNone(artifacts.writing)
    /\ artifacts' = [ artifacts EXCEPT !.writing = None ]
    /\ UNCHANGED << now, vehicle_positions, weather_logs, model, feature_columns,
                    started, response, final_df, features_df, norm,
                    collector >>

\* the serving process ends; the next one starts with the module's globals
\* model = None and feature_columns = []
Restart ==
    /\ started
    /\ started' = FALSE
    /\ model' = None
    /\ feature_columns' = << >>
    /\ response' = NoResponse
    /\ UNCHANGED << now, vehicle_positions, weather_logs, final_df, features_df,
                    norm, artifacts,
                    collector >>

-----------------------------------------------------------------------------
(* One normalizer call on drawn inputs: the same schedule string and the    *)
(* same observed timestamp given to the training copy and the serving copy  *)

NormHours   == { 0, 5, 12, 23, 24, 25, 36, 47 }
NormMinutes == { 0, 10 }
NormSeconds == { 0, 30 }

\* well-formed strings, then a string of hour 48, minute 60, a non-numeric
\* field, two fields only, and NULL
NormScheds ==
    { Str(h, m, s) : h \in NormHours, m \in NormMinutes, s \in NormSeconds }
    \cup { Str(48, 0, 0), Str(10, 60, 0), << None, Some(10), Some(0) >>,
           << Some(10), Some(0) >>, None }

\* observed timestamps on the third day of the epoch
NormActuals ==
    { 2 * Day + d : d \in { 0, 5 * Minute, Hour + 15 * Minute, 12 * Hour,
                            12 * Hour + 10 * Minute + 30, 23 * Hour + 55 * Minute } }

\* the parts of the state a specification does not use
IdleStore    == now = 0 /\ vehicle_positions = << >> /\ weather_logs = << >>
IdleService  == model = None /\ feature_columns = << >> /\ started = FALSE
                /\ response = NoResponse
IdleTraining == final_df = None /\ features_df = None /\ artifacts = NoArtifacts
IdleNorm     == norm = None

InitNorm ==
    /\ norm \in [ scheduled_arrival : NormScheds, actual : NormActuals,
                  scheduled_timestamp : { None }, best_candidate : { None },
                  delay_minutes : { None }, delays : { None } ]
    /\ IdleStore /\ IdleService /\ IdleTraining
    /\ collector = NoPoll

\* df_vehicles.apply(convert_gtfs_time) on the row, then its delay_minutes
\* when dropna keeps the row
NormalizeTraining ==
    /\ IsNone(norm.scheduled_timestamp)
    /\ LET scheduled_timestamp == convert_gtfs_time(norm.scheduled_arrival, norm.actual)
       IN  norm' = [ norm EXCEPT
                       !.scheduled_timestamp = Some(scheduled_timestamp),
                       !.delay_minutes =
                           IF IsNone(scheduled_timestamp) THEN None
                           ELSE Some(DelayMinutes(norm.actual, Val(scheduled_timestamp))) ]
    /\ UNCHANGED << now, vehicle_positions, weather_logs, model, feature_columns,
                    started, response, final_df, features_df,
                    artifacts,
                    collector >>

\* the serving loop body on the row: best_candidate and the list `delays`
\* after it, in seconds
NormalizeServing ==
    /\ IsNone(norm.best_candidate)
    /\ norm' = [ norm EXCEPT
                   !.best_candidate =
                       Some(ServeBestCandidate(norm.scheduled_arrival, Some(norm.actual))),
                   !.delays =
                       Some(ServeDelays(<< [ stop_id |-> "S1", actual |-> Some(norm.actual),
                                             sched |-> norm.scheduled_arrival ] >>)) ]
    /\ UNCHANGED << now, vehicle_positions, weather_logs, model, feature_columns,
                    started, response, final_df, features_df,
                    artifacts,
                    collector >>

NextNorm == NormalizeTraining \/ NormalizeServing

SpecNorm == InitNorm /\ [][NextNorm]_vars

-----------------------------------------------------------------------------
(* Inputs of the service and of the collector                               *)

\* feature_cols of build_features, before the one-hot columns
Continuous ==
    << Plain("hour_of_day"), Plain("day_of_week"), Plain("is_weekend"),
       Plain("is_rush_hour"), Plain("temp"), Plain("precip_mm"),
       Plain("wind_speed"), Plain("rolling_congestion_3_trains") >>

OneHot(prefix, levels) == [ k \in 1..Len(levels) |-> Name(prefix, levels[k]) ]

\* the name pd.get_dummies gives the column of a direction: the level is
\* printed as the column holds it, a float when read_sql or read_csv met a
\* row with no direction (or one spelled 0.0) and an integer otherwise
DirectionColumn(direction_id, as_float) ==
    Name("direction_id_", IF as_float THEN FloatStr(direction_id)
                          ELSE ToString(direction_id))

\* the one-hot blocks a training run can leave in the feature-name file:
\* the routes it saw, and the directions it saw with float or integer labels
RouteBlocks == { << >>, << "Blue" >>, << "Blue", "Red" >>, << "Red", "Blue" >>,
                 << "Green", "Red" >> }
DirBlocks   == { << >>, << "0.0", "1.0" >>, << "0", "1" >>, << "1.0" >> }

\* column lists: the training layout, the same with a column the service
\* does not know, one with the one-hot columns first, and one with the two
\* live features build_features does not write
ColumnLists ==
    { Continuous \o OneHot("route_id_", r) \o OneHot("direction_id_", d) \o x :
        r \in RouteBlocks, d \in DirBlocks,
        x \in { << >>, << Plain("stop_sequence") >> } }
    \cup { OneHot("direction_id_", << "1.0", "0.0" >>) \o OneHot("route_id_", << "Red" >>)
             \o Continuous,
           << Plain("headway_minutes"), Plain("rolling_upstream_delay") >>
             \o OneHot("route_id_", << "Red", "Blue" >>)
             \o OneHot("direction_id_", << "0.0", "1.0" >>) }

\* a file as train_model writes it, and one edited by hand, with white space
\* around a name and blank lines
FeatureFiles ==
    { FileOf(c) : c \in ColumnLists }
    \cup { "  temp \t\nroute_id_Red\n\n \n" }

Regressor == "XGBRegressor"

Stops      == { "S1", "S2" }
Routes     == { "Red", "Blue", "Orange" }
Directions == { 0, 1, 2 }
Requests   == [ stop_id : Stops, route_id : Routes, direction_id : Directions ]

\* request bodies whose direction_id spells no integer
UnparseableBodies ==
    [ stop_id : Stops, route_id : Routes, direction_id : { "north", "" } ]

\* how far the serving process's clock is ahead of the last poll; it is
\* behind when the server's datetime.now() is local time and the collector's
\* is UTC
Lags == { 10 * Minute, 3 * Hour, 10 * Minute - TzShiftHours * Hour }

Vehicle(trip_id, stop_id, current_status) ==
    [ trip_id |-> trip_id, stop_id |-> stop_id, current_status |-> current_status ]

\* what one fetch of the vehicles API returns
VehicleBatches ==
    { << >>,
      << Vehicle("T1", "S1", "STOPPED_AT"), Vehicle("T2", "S2", "STOPPED_AT") >>,
      << Vehicle("T4", "S1", "STOPPED_AT"), Vehicle("T2", "S2", "STOPPED_AT") >>,
      << Vehicle("T3", "S1", "STOPPED_AT"), Vehicle("T1", "S2", "IN_TRANSIT_TO"),
         Vehicle("T5", "S2", "STOPPED_AT") >> }

\* what one fetch of the weather API returns: {} or the current weather,
\* which changes from poll to poll
WeatherPayloads ==
    LET polls == (now - StartClock) \div PollPeriod
    IN  { None, Some([ temperature |-> 20 + polls, precipitation |-> polls,
                       windspeed |-> 9 - polls ]) }

-----------------------------------------------------------------------------
(* One call of get_vehicle_positions or get_weather                         *)

MaxRetries == 3
Backoffs   == { 2, 3 }

\* how one HTTP attempt can end
VehicleOutcomes == { None } \cup { Some(batch) : batch \in VehicleBatches }
WeatherOutcomes == { None } \cup { Some(weather) : weather \in WeatherPayloads }

InitFetch ==
    /\ now = StartClock /\ vehicle_positions = << >> /\ weather_logs = << >>
    /\ \E endpoint \in { "vehicles", "weather" }, retries \in 1..MaxRetries,
          backoff \in Backoffs :
          collector = [ NoPoll EXCEPT !.call = Call(endpoint, retries, backoff) ]
    /\ IdleService /\ IdleTraining /\ IdleNorm

NextFetch ==
    \/ \E outcome \in VehicleOutcomes : get_vehicle_positions(outcome)
    \/ \E outcome \in WeatherOutcomes : get_weather(outcome)

\* every HTTP attempt ends: requests.get has timeout=10
SpecFetch == InitFetch /\ [][NextFetch]_vars /\ WF_vars(NextFetch)

-----------------------------------------------------------------------------
(* The collector, poll after poll                                           *)

\* what the vehicles API returns in these polls: nothing, or three vehicles
PolledBatches == { batch \in VehicleBatches : Len(batch) # 2 }

InitCollector ==
    /\ now = StartClock /\ vehicle_positions = << >> /\ weather_logs = << >>
    /\ collector = NoPoll
    /\ IdleService /\ IdleTraining /\ IdleNorm

NextCollector ==
    \/ main
    \/ \E outcome \in { None } \cup { Some(batch) : batch \in PolledBatches } :
          get_vehicle_positions(outcome)
    \/ main_vehicles
    \/ \E outcome \in WeatherOutcomes : get_weather(outcome)
    \/ main_weather
    \/ LogNothing
    \/ \E connected \in BOOLEAN : LogConnect(connected)
    \/ \E ok \in BOOLEAN : LogInsert(ok)
    \/ \E ok \in BOOLEAN : LogCommit(ok)

SpecCollector == InitCollector /\ [][NextCollector]_vars

-----------------------------------------------------------------------------
(* The service from startup on, over a store that does not change          *)

SampleRows ==
    << VehicleRow(Vehicle("T1", "S1", "STOPPED_AT"), StartClock - PollPeriod),
       VehicleRow(Vehicle("T2", "S2", "STOPPED_AT"), StartClock) >>
SampleWeather ==
    << [ timestamp |-> StartClock, temp |-> 21, precip_mm |-> 2, wind_speed |-> 9 ] >>

InitApi ==
    /\ now = StartClock
    /\ \/ vehicle_positions = << >> /\ weather_logs = << >>
       \/ vehicle_positions = SampleRows /\ weather_logs = SampleWeather
    /\ IdleService /\ IdleTraining /\ IdleNorm
    /\ collector = NoPoll

NextApi ==
    \/ \E model_file \in { None, Some(Regressor) },
          features_file \in { None } \cup { Some(f) : f \in FeatureFiles } :
          load_artifacts(model_file, features_file)
    \/ \E req \in Requests, lag \in Lags : predict_delay(req, lag)
    \/ \E body \in UnparseableBodies : RequestValidationError(body)
    \/ health_check
    \/ Deliver

SpecApi == InitApi /\ [][NextApi]_vars

-----------------------------------------------------------------------------
(* The loaded service beside the collector                                  *)

InitServe ==
    /\ now = StartClock /\ vehicle_positions = << >> /\ weather_logs = << >>
    /\ model = Some(Regressor)
    /\ feature_columns = Continuous \o OneHot("route_id_", << "Blue", "Red" >>)
                            \o OneHot("direction_id_", << "0.0", "1.0" >>)
    /\ started = TRUE
    /\ response = NoResponse
    /\ IdleTraining /\ IdleNorm
    /\ collector = NoPoll

\* requests of one direction: the direction does not reach the live features
ServeRequests == { req \in Requests : req.direction_id = 0 }

NextServe ==
    \/ \E vehicles \in VehicleBatches, weather \in WeatherPayloads :
          LogData(vehicles, weather)
    \/ \E req \in ServeRequests, lag \in Lags : predict_delay(req, lag)
    \/ Deliver

SpecServe == InitServe /\ [][NextServe]_vars

-----------------------------------------------------------------------------
(* The extraction beside the collector                                      *)

InitTrain ==
    /\ now = StartClock /\ vehicle_positions = << >> /\ weather_logs = << >>
    /\ IdleService /\ IdleTraining /\ IdleNorm
    /\ collector = NoPoll

NextTrain ==
    \/ \E vehicles \in VehicleBatches, weather \in WeatherPayloads :
          LogData(vehicles, weather)
    \/ extract_raw_data

SpecTrain == InitTrain /\ [][NextTrain]_vars

-----------------------------------------------------------------------------
(* The loaded service and the extraction over the same store                *)

PipelineRequests ==
    { req \in ServeRequests : req.route_id = "Red" /\ req.stop_id = "S1" }

NextPipeline ==
    \/ \E vehicles \in VehicleBatches, weather \in WeatherPayloads :
          LogData(vehicles, weather)
    \/ extract_raw_data
    \/ \E req \in PipelineRequests, lag \in Lags : predict_delay(req, lag)
    \/ Deliver

SpecPipeline == InitServe /\ [][NextPipeline]_vars

-----------------------------------------------------------------------------
(* build_features on a drawn extracted dataset                              *)

MaxCsvRows == 5

\* the delay, in seconds, of the row of the k-th trip
CsvDelays == << 2 * Minute, -4 * Minute, 320 * Minute, 8 * Minute, 16 * Minute,
                32 * Minute >>

CsvTimes == { StartClock, StartClock + PollPeriod }

CsvRow(k, stop_id, actual_timestamp) ==
    [ trip_id |-> TripIds[k], stop_id |-> stop_id,
      route_id |-> Some("Red"), direction_id |-> Some(k % 2),
      actual_timestamp |-> actual_timestamp,
      scheduled_timestamp |-> actual_timestamp - CsvDelays[k],
      delay_minutes |-> Minutes(CsvDelays[k]),
      timestamp |-> actual_timestamp, temp |-> 21 ]

\* the datasets: of each of the first MaxCsvRows trips no row, or one row at
\* a stop and a time
RawDatasets ==
    LET Choices == { << >> } \cup { << s, ts >> : s \in Stops, ts \in CsvTimes }
    IN  { { CsvRow(k, c[k][1], c[k][2]) : k \in { j \in 1..MaxCsvRows : c[j] # << >> } } :
          c \in [ 1..MaxCsvRows -> Choices ] }

InitBuild ==
    /\ final_df \in { Some(df) : df \in RawDatasets }
    /\ features_df = None
    /\ artifacts = NoArtifacts
    /\ IdleStore /\ IdleService /\ IdleNorm
    /\ collector = NoPoll

NextBuild == build_features

SpecBuild == InitBuild /\ [][NextBuild]_vars

-----------------------------------------------------------------------------
(* Training runs beside a service that starts from the files on disk       *)

InitPublish ==
    /\ artifacts = NoArtifacts
    /\ final_df = None /\ features_df = None
    /\ IdleStore /\ IdleService /\ IdleNorm
    /\ collector = NoPoll

NextPublish ==
    \/ SaveModel
    \/ SaveFeatureNames
    \/ TrainCrash
    \/ load_artifacts(artifacts.model_file, artifacts.features_file)
    \/ health_check
    \/ Deliver
    \/ Restart

SpecPublish == InitPublish /\ [][NextPublish]_vars

-----------------------------------------------------------------------------
(* Claims *)

\* HH:MM:SS with HH in 0..47
WellFormed(val) ==
    /\ ~IsNone(val) /\ ParsesHMS(val)
    /\ Val(val[1]) \in 0..47 /\ Val(val[2]) \in 0..59 /\ Val(val[3]) \in 0..59

\* (observed date, plus 1 day if HH >= 24) at (HH mod 24):MM:SS
Anchor(val, observed) ==
    DateOf(observed) + (IF Val(val[1]) >= 24 THEN Day ELSE 0)
        + (Val(val[1]) % 24) * Hour + Val(val[2]) * Minute + Val(val[3])

ThreeCandidates(val, observed) ==
    { Anchor(val, observed) - Day, Anchor(val, observed), Anchor(val, observed) + Day }

\* res, the outcome of one normalizer call, is one of the three candidates
\* and none of the three is nearer to the observed timestamp
NearestOfThree(res, val, observed) ==
    /\ ~IsNone(res)
    /\ Val(res) \in ThreeCandidates(val, observed)
    /\ \A c \in ThreeCandidates(val, observed) :
           Abs(observed - Val(res)) <= Abs(observed - c)

\* C1: for every schedule string HH:MM:SS with HH in 0..47 and every observed
\* timestamp, the training normalizer and the serving normalizer each return
\* one of {anchor - 1 day, anchor, anchor + 1 day}, and the returned candidate
\* is at minimal absolute distance from the observed timestamp.
C1_NearestCandidate ==
    WellFormed(norm.scheduled_arrival) =>
        /\ ~IsNone(norm.scheduled_timestamp) =>
              NearestOfThree(Val(norm.scheduled_timestamp),
                             norm.scheduled_arrival, norm.actual)
        /\ ~IsNone(norm.best_candidate) =>
              NearestOfThree(Val(norm.best_candidate),
                             norm.scheduled_arrival, norm.actual)

\* both copies have run on a string whose nearest candidate is not the
\* anchor itself (25:10:00 observed at 01:15:00 resolves to anchor - 1 day)
C1_Witness ==
    /\ WellFormed(norm.scheduled_arrival)
    /\ ~IsNone(norm.scheduled_timestamp) /\ ~IsNone(norm.best_candidate)
    /\ Val(norm.scheduled_timestamp) =
           Some(Anchor(norm.scheduled_arrival, norm.actual) - Day)
    /\ Val(norm.best_candidate) =
           Some(Anchor(norm.scheduled_arrival, norm.actual) - Day)

\* the live value the service holds for one of the ten names of feature_dict
LiveNames ==
    { Plain("hour_of_day"), Plain("day_of_week"), Plain("is_weekend"),
      Plain("is_rush_hour"), Plain("temp"), Plain("precip_mm"), Plain("wind_speed"),
      Plain("rolling_congestion_3_trains"), Plain("headway_minutes"),
      Plain("rolling_upstream_delay") }

LiveValue(col, clock, live) ==
    CASE col = Plain("hour_of_day")  -> Rat(HourOf(clock), 1)
      [] col = Plain("day_of_week")  -> Rat(WeekdayOf(clock), 1)
      [] col = Plain("is_weekend")   -> IF WeekdayOf(clock) >= 5 THEN One ELSE Zero
      [] col = Plain("is_rush_hour") -> IF HourOf(clock) \in (7..9) \cup (16..18)
                                        THEN One ELSE Zero
      [] col = Plain("temp")         -> live.temp
      [] col = Plain("precip_mm")    -> live.precip_mm
      [] col = Plain("wind_speed")   -> live.wind_speed
      [] col = Plain("rolling_congestion_3_trains") -> live.congestion
      [] col = Plain("headway_minutes")             -> live.headway_minutes
      [] col = Plain("rolling_upstream_delay")      -> live.upstream_delay

IsOneHot(col) == StartsWith(col, "route_id_") \/ StartsWith(col, "direction_id_")

Answered == response.status = "200" /\ ~IsNone(response.req)

\* C3: for every /predict request that reaches assembly, whatever the
\* requested route and direction, the input vector has as many entries as the
\* loaded feature-name list, in its order: the entry at a live feature's name
\* is that feature's live value, and a 1.0 that is no live value stands only
\* at a one-hot column.
C3_VectorMatchesColumns ==
    Answered =>
        /\ response.columns = feature_columns
        /\ Len(response.input_array) = Len(feature_columns)
        /\ DOMAIN response.input_array = DOMAIN feature_columns
        /\ \A i \in DOMAIN feature_columns :
             /\ feature_columns[i] \in LiveNames =>
                  response.input_array[i] =
                      LiveValue(feature_columns[i], response.clock, Val(response.live))
             /\ feature_columns[i] \notin LiveNames =>
                  /\ response.input_array[i] \in { Zero, One }
                  /\ response.input_array[i] = One => IsOneHot(feature_columns[i])

\* a request for a route the list does not hold, answered over a list that
\* has route, direction and unknown columns
C3_Witness ==
    /\ Answered
    /\ Val(response.req).route_id = "Orange"
    /\ \E i \in DOMAIN feature_columns : feature_columns[i] = Plain("stop_sequence")
    /\ \E i \in DOMAIN feature_columns :
          StartsWith(feature_columns[i], "route_id_") /\ response.input_array[i] = One
    /\ \E i \in DOMAIN feature_columns :
          StartsWith(feature_columns[i], "direction_id_") /\ response.input_array[i] = One

\* the request's route has no column in the list and the list has a route column
NeedsFallback ==
    /\ Answered
    /\ ~InSeq(Name("route_id_", Val(response.req).route_id), feature_columns)
    /\ \E i \in DOMAIN feature_columns : StartsWith(feature_columns[i], "route_id_")

FirstRouteIndex ==
    CHOOSE i \in DOMAIN feature_columns :
        /\ StartsWith(feature_columns[i], "route_id_")
        /\ \A j \in 1..(i - 1) : ~StartsWith(feature_columns[j], "route_id_")

C5_ArtifactsLoadedTogether ==
    started => (IsNone(model) <=> feature_columns = << >>)

\* C6: while the model was never loaded, every /predict request is answered
\* with the 'model not loaded' HTTPException, before any store query and any
\* feature assembly.
C6_ModelNotLoaded ==
    (response # NoResponse /\ ~IsNone(response.req) /\ IsNone(model)) =>
        /\ response.status = ModelNotLoaded
        /\ response.queries = 0
        /\ response.rows = << >> /\ IsNone(response.live)
        /\ response.input_array = << >>

\* a request answered after a startup that loaded no model
C6_Witness ==
    /\ started /\ IsNone(model)
    /\ response.status = ModelNotLoaded
    /\ ~IsNone(response.req)

\* ids of the stored STOPPED_AT observations of a route
StoppedOnRoute(route_id) ==
    { i \in DOMAIN vehicle_positions :
        /\ vehicle_positions[i].current_status = "STOPPED_AT"
        /\ \E tr \in trips : tr.trip_id = vehicle_positions[i].trip_id
                             /\ tr.route_id = route_id }

\* the row the performance query returns for a stored observation
RowOf(i) ==
    [ stop_id |-> vehicle_positions[i].stop_id,
      actual  |-> Some(vehicle_positions[i].timestamp),
      sched   |-> ScheduledArrival(vehicle_positions[i]) ]

\* rows is a newest-first list of the RecentLimit most recent of them: its
\* rows are distinct stored observations of the route, and no stored
\* observation newer than a row of the list is left out
IsRecentWindow(rows, route_id) ==
    LET M == StoppedOnRoute(route_id)
        InRows(v)  == Cardinality({ k \in DOMAIN rows : rows[k] = v })
        InStore(v) == Cardinality({ i \in M : RowOf(i) = v })
    IN  /\ Len(rows) = Min(RecentLimit, Cardinality(M))
        /\ \A k \in 1..(Len(rows) - 1) : Val(rows[k].actual) >= Val(rows[k + 1].actual)
        /\ \A k \in DOMAIN rows : InRows(rows[k]) <= InStore(rows[k])
        /\ \A i \in M :
              (\E k \in DOMAIN rows : vehicle_positions[i].timestamp > Val(rows[k].actual))
                  => InRows(RowOf(i)) = InStore(RowOf(i))

\* the plausible delay of one row in seconds, as a list of none or one:
\* observed minus the candidate less than PlausibleLimit minutes away
PlausibleDelay(row) ==
    IF ~WellFormed(row.sched) THEN << >>
    ELSE LET near == { c \in ThreeCandidates(row.sched, Val(row.actual)) :
                          Abs(Val(row.actual) - c) < PlausibleLimit * Minute }
         IN  IF near = {} THEN << >>
             ELSE << Val(row.actual) - (CHOOSE c \in near : TRUE) >>

RECURSIVE PlausibleDelays(_)
PlausibleDelays(rows) ==
    IF rows = << >> THEN << >>
    ELSE PlausibleDelay(rows[1]) \o PlausibleDelays(Tail(rows))

\* the mean, in minutes, of the first min(n, |D|) delays of D, 0.0 for empty D
MeanOfFirst(D, n) ==
    IF D = << >> THEN Zero
    ELSE Rat(Sum(SubSeq(D, 1, Min(n, Len(D)))), Minute * Min(n, Len(D)))

\* C9: over the 5 most recent STOPPED_AT observations of the requested
\* route, newest first, with D the list of their plausible delays in that
\* order, congestion is the mean of the first min(3, |D|) elements of D and
\* upstream delay the mean of the first min(2, |D|); both are 0.0 for empty D.
C9_RollingMeans ==
    Answered =>
        LET D == PlausibleDelays(response.rows)
            live == Val(response.live)
        IN  /\ IsRecentWindow(response.rows, Val(response.req).route_id)
            /\ RatEq(live.congestion, MeanOfFirst(D, 3))
            /\ RatEq(live.upstream_delay, MeanOfFirst(D, 2))
            /\ D = << >> => live.congestion = Zero /\ live.upstream_delay = Zero

\* a window cut to 5 rows of 6, holding an implausible delay and four
\* plausible ones whose mean differs from the mean of the first three
C9_Witness ==
    /\ Answered
    /\ Cardinality(StoppedOnRoute(Val(response.req).route_id)) > RecentLimit
    /\ Len(response.rows) = RecentLimit
    /\ Len(PlausibleDelays(response.rows)) = 4
    /\ ~RatEq(MeanOfFirst(PlausibleDelays(response.rows), 3),
              MeanOfFirst(PlausibleDelays(response.rows), 4))
    /\ ~RatEq(Val(response.live).congestion, Val(response.live).upstream_delay)

\* rows of the window at the requested stop
AtStop(rows, stop_id) == { k \in DOMAIN rows : rows[k].stop_id = stop_id }

\* C10: headway_minutes is min(minutes since the most recent observation at
\* the requested stop among the 5-row window, 120), 10.0 when no row of the
\* window is at that stop; a route with no stopped observation yields
\* headway 10.0, congestion 0.0 and upstream delay 0.0.
C10_Headway ==
    Answered =>
        LET rows == response.rows
            live == Val(response.live)
            S    == AtStop(rows, Val(response.req).stop_id)
            last == CHOOSE t \in { Val(rows[k].actual) : k \in S } :
                        \A k \in S : Val(rows[k].actual) <= t
            elapsed == Minutes(response.clock - last)
        IN  /\ IsRecentWindow(rows, Val(response.req).route_id)
            /\ S = {} => live.headway_minutes = Rat(HeadwayDefault, 1)
            /\ S # {} =>
                 IF RatLess(elapsed, Rat(HeadwayCap, 1))
                 THEN RatEq(live.headway_minutes, elapsed)
                 ELSE RatEq(live.headway_minutes, Rat(HeadwayCap, 1))
            /\ StoppedOnRoute(Val(response.req).route_id) = {} =>
                 /\ live.headway_minutes = Rat(HeadwayDefault, 1)
                 /\ live.congestion = Zero
                 /\ live.upstream_delay = Zero

\* the requested stop was last seen more than 120 minutes before the
\* request, behind newer rows of the window at another stop
C10_Witness ==
    /\ Answered
    /\ AtStop(response.rows, Val(response.req).stop_id) # {}
    /\ 1 \notin AtStop(response.rows, Val(response.req).stop_id)
    /\ RatEq(Val(response.live).headway_minutes, Rat(HeadwayCap, 1))
    /\ \E k \in AtStop(response.rows, Val(response.req).stop_id) :
          response.clock - Val(response.rows[k].actual) > HeadwayCap * Minute

\* the defaults case of C10: a request for a route with no stopped
\* observation while the store holds observations of other routes
C10_WitnessDefaults ==
    /\ Answered
    /\ vehicle_positions # << >>
    /\ StoppedOnRoute(Val(response.req).route_id) = {}
    /\ Val(response.live).headway_minutes = Rat(HeadwayDefault, 1)

\* a delay in minutes is plausible: abs(delay_minutes) < 300
Plausible(delay_minutes) ==
    RatLess(Rat(Abs(delay_minutes[1]), delay_minutes[2]), Rat(PlausibleLimit, 1))

\* C2: no delay of 300 minutes or more in magnitude is in a training row, in
\* the training-time rolling congestion average or in the serving-time
\* congestion and upstream-delay averages.
C2_PlausibleDelaysOnly ==
    /\ ~IsNone(final_df) => \A r \in Val(final_df) : Plausible(r.delay_minutes)
    /\ ~IsNone(features_df) =>
          \A k \in DOMAIN Val(features_df) :
              Plausible(Val(features_df)[k].delay_minutes)
    /\ Answered =>
          \A k \in DOMAIN ServeDelays(response.rows) :
              Plausible(Minutes(ServeDelays(response.rows)[k]))

\* the stored observations a row of final_df can come from
StoredAs(r) ==
    { i \in VehicleQuery :
        /\ vehicle_positions[i].trip_id = r.trip_id
        /\ vehicle_positions[i].stop_id = r.stop_id
        /\ vehicle_positions[i].timestamp - TzShiftHours * Hour = r.actual_timestamp }

Snapshots == { weather_logs[k].timestamp : k \in DOMAIN weather_logs }

\* C7: every observation of the training set is joined to the snapshot
\* nearest in time to it, earlier or later, and an observation is kept if and
\* only if some snapshot lies within 60 minutes of it.
C7_NearestSnapshotWithinTolerance ==
    ~IsNone(final_df) =>
        /\ \A r \in Val(final_df) : \E i \in StoredAs(r) :
              LET observed == vehicle_positions[i].timestamp IN
              /\ Abs(observed - r.timestamp) <= ToleranceMinutes * Minute
              /\ \A w \in Snapshots : Abs(observed - r.timestamp) <= Abs(observed - w)
        /\ \A i \in VehicleQuery :
              ( /\ \A j \in VehicleQuery : SameTripStop(i, j) => j = i
                /\ WellFormed(ScheduledArrival(vehicle_positions[i]))
                /\ \E w \in Snapshots :
                      Abs(vehicle_positions[i].timestamp - w) <= ToleranceMinutes * Minute )
              => \E r \in Val(final_df) : i \in StoredAs(r)

\* the rows of the feature frame at one stop
RowsAtStop(F, stop_id) == { k \in DOMAIN F : F[k].stop_id = stop_id }

\* order lists the rows K of one stop in timestamp order, and each row's
\* rolling value is the mean delay of the up to three rows just before it
\* in that order, 0 for the first
RollsOver(F, order) ==
    /\ \A n \in 1..(Len(order) - 1) :
          F[order[n]].actual_timestamp <= F[order[n + 1]].actual_timestamp
    /\ \A n \in DOMAIN order :
          LET prev == SubSeq(order, IF n > 3 THEN n - 3 ELSE 1, n - 1)
              value == F[order[n]].rolling_congestion_3_trains
          IN  IF n = 1 THEN value = Zero
              ELSE RatEq(value,
                         Rat(Sum([ m \in DOMAIN prev |-> F[prev[m]].delay_minutes[1] ]),
                             Minute * Len(prev)))

\* C8: in build_features every row's rolling_congestion_3_trains is the mean
\* delay of the up-to-3 immediately preceding observations at the same stop
\* in timestamp order, and exactly 0 for the first observation at each stop.
C8_RollingCongestion ==
    ~IsNone(features_df) =>
        \A s \in Stops :
            \E order \in Perms(RowsAtStop(Val(features_df), s)) :
                RollsOver(Val(features_df), order)

\* five observations at one stop, not in trip order: the first has value 0
\* and the fifth averages three rows, which is not the mean of all four
\* before it
C8_Witness ==
    /\ ~IsNone(features_df)
    /\ \E s \in Stops :
          LET F == Val(features_df)
              K == RowsAtStop(F, s)
              first == CHOOSE k \in K : \A l \in K : k <= l
              fifth == CHOOSE k \in K : \A l \in K : l <= k
          IN  /\ Cardinality(K) = 5
              /\ F[first].rolling_congestion_3_trains = Zero
              /\ F[fifth].rolling_congestion_3_trains[2] = 3 * Minute
              /\ ~RatEq(F[fifth].rolling_congestion_3_trains,
                        Rat(Sum([ m \in 1..4 |-> F[first + m - 1].delay_minutes[1] ]),
                            4 * Minute))
              /\ \E k, l \in K : /\ k < l
                                 /\ Rank(TripIds, F[k].trip_id) > Rank(TripIds, F[l].trip_id)

\* the stored snapshots no other snapshot is newer than
NewestSnapshots ==
    { k \in DOMAIN weather_logs :
        \A j \in DOMAIN weather_logs : weather_logs[j].timestamp <= weather_logs[k].timestamp }

\* C11: at serving time the weather features are those of the single most
\* recent snapshot, whatever its age; with no weather row at all they are
\* exactly temp 15.0, precip_mm 0.0 and wind_speed 5.0, and the request is
\* answered all the same.
C11_LatestWeatherOrDefaults ==
    (response # NoResponse /\ ~IsNone(response.req) /\ ~IsNone(model)) =>
        /\ Answered
        /\ LET live == Val(response.live) IN
           IF weather_logs = << >>
           THEN /\ live.temp = Rat(15, 1)
                /\ live.precip_mm = Rat(0, 1)
                /\ live.wind_speed = Rat(5, 1)
           ELSE \E k \in NewestSnapshots :
                   /\ live.temp = Rat(weather_logs[k].temp, 1)
                   /\ live.precip_mm = Rat(weather_logs[k].precip_mm, 1)
                   /\ live.wind_speed = Rat(weather_logs[k].wind_speed, 1)

\* a request answered from the newest of two different snapshots, which is
\* more than two hours old
C11_Witness ==
    /\ Answered
    /\ Len(weather_logs) >= 2
    /\ \E k \in NewestSnapshots :
          /\ Val(response.live).temp = Rat(weather_logs[k].temp, 1)
          /\ response.clock - weather_logs[k].timestamp > 2 * Hour
          /\ \E j \in DOMAIN weather_logs : weather_logs[j].temp # weather_logs[k].temp

\* the defaults case of C11: a request answered while vehicles are stored
\* and no weather row is
C11_WitnessDefaults ==
    /\ Answered
    /\ weather_logs = << >> /\ vehicle_positions # << >>
    /\ Val(response.live).temp = Rat(15, 1)

\* a schedule string that is NULL, has not three integer fields, or has its
\* minutes or seconds out of range
Malformed(val) ==
    \/ IsNone(val)
    \/ Len(val) # 3
    \/ \E k \in DOMAIN val : IsNone(val[k])
    \/ Val(val[2]) \notin 0..59
    \/ Val(val[3]) \notin 0..59

\* the rows of the fetched window whose schedule string is not malformed
SoundRows(rows) == SelectSeq(rows, LAMBDA row : ~Malformed(row.sched))

\* C12: a malformed or missing schedule string never raises into the caller.
\* In training no row of the extracted frame comes from an observation with
\* such a string, while an observation with a sound string and a snapshot
\* within tolerance of its frame timestamp is resolved and kept; in serving
\* the request is answered and the averages are those of the rows with a
\* sound string.
C12_MalformedScheduleSkipped ==
    /\ ~IsNone(final_df) =>
          \A i \in VehicleQuery :
             LET vp == vehicle_positions[i]
                 sched == ScheduledArrival(vp)
                 shifted == vp.timestamp - 5 * Hour
                 Of(r) == r.trip_id = vp.trip_id /\ r.stop_id = vp.stop_id
             IN  /\ Malformed(sched) => ~\E r \in Val(final_df) : Of(r)
                 /\ ( /\ WellFormed(sched)
                      /\ \A j \in VehicleQuery : SameTripStop(i, j) => j = i
                      /\ \E w \in Snapshots : Abs(shifted - w) <= 60 * Minute )
                    => \E r \in Val(final_df) :
                          /\ Of(r)
                          /\ r.scheduled_timestamp \in ThreeCandidates(sched, shifted)
    /\ (response # NoResponse /\ ~IsNone(response.req) /\ ~IsNone(model)) =>
          /\ Answered
          /\ RatEq(Val(response.live).congestion,
                   MeanOfFirst(PlausibleDelays(SoundRows(response.rows)), 3))
          /\ RatEq(Val(response.live).upstream_delay,
                   MeanOfFirst(PlausibleDelays(SoundRows(response.rows)), 2))

\* an extraction that kept a row while an observation with the string
\* "25:60:00" was stored, and then a request answered from a window whose
\* first three rows hold that string, a NULL string and a sound one
C12_Witness ==
    /\ ~IsNone(final_df) /\ Val(final_df) # {}
    /\ \E i \in VehicleQuery :
          ScheduledArrival(vehicle_positions[i]) = << Some(25), Some(60), Some(0) >>
    /\ Answered
    /\ Len(response.rows) >= 3
    /\ \E k \in 1..3 : response.rows[k].sched = << Some(25), Some(60), Some(0) >>
    /\ \E k \in 1..3 : IsNone(response.rows[k].sched)
    /\ Len(PlausibleDelays(response.rows)) >= 1

\* schedule "25:10:00" observed at 01:15:00 of a day
LateByFive ==
    /\ norm.scheduled_arrival = << Some(25), Some(10), Some(0) >>
    /\ norm.actual = 2 * Day + Hour + 15 * Minute

\* C13: delay_minutes is the observed timestamp minus the resolved scheduled
\* timestamp, in minutes, positive when the vehicle is late; schedule
\* "25:10:00" observed at 01:15:00 resolves to 01:10:00 of the same day and
\* gives +5 minutes, in training and in serving.
C13_DelayIsObservedMinusScheduled ==
    WellFormed(norm.scheduled_arrival) =>
        /\ ~IsNone(norm.scheduled_timestamp) =>
              LET resolved == Val(Val(norm.scheduled_timestamp))
                  delay == Val(norm.delay_minutes)
              IN  /\ RatEq(delay, Rat(norm.actual - resolved, 60))
                  /\ RatLess(Rat(0, 1), delay) <=> norm.actual > resolved
                  /\ LateByFive => /\ resolved = 2 * Day + Hour + 10 * Minute
                                   /\ RatEq(delay, Rat(5, 1))
        /\ ~IsNone(norm.best_candidate) =>
              LET resolved == Val(Val(norm.best_candidate))
                  delays == Val(norm.delays)
              IN  /\ \A k \in DOMAIN delays :
                        /\ RatEq(Rat(delays[k], 60), Rat(norm.actual - resolved, 60))
                        /\ delays[k] > 0 <=> norm.actual > resolved
                  /\ LateByFive => /\ resolved = 2 * Day + Hour + 10 * Minute
                                   /\ delays = << 5 * 60 >>

\* both copies have run on "25:10:00" observed at 01:15:00
C13_Witness ==
    /\ LateByFive
    /\ ~IsNone(norm.delay_minutes) /\ RatEq(Val(norm.delay_minutes), Rat(5, 1))
    /\ ~IsNone(norm.delays) /\ Len(Val(norm.delays)) = 1

\* C14: for every schedule string with HH in 0..47 and every reference
\* timestamp, the scheduled timestamp the normalizer returns is within 36
\* hours of the reference timestamp.
C14_WithinThirtySixHours ==
    WellFormed(norm.scheduled_arrival) =>
        /\ ~IsNone(norm.scheduled_timestamp) =>
              /\ ~IsNone(Val(norm.scheduled_timestamp))
              /\ Abs(norm.actual - Val(Val(norm.scheduled_timestamp))) <= 36 * Hour
        /\ ~IsNone(norm.best_candidate) =>
              /\ ~IsNone(Val(norm.best_candidate))
              /\ Abs(norm.actual - Val(Val(norm.best_candidate))) <= 36 * Hour

\* a string of hour 47 resolved for a reference at midnight: the anchor is
\* 47 hours away and the nearest candidate 23 hours
C14_Witness ==
    /\ WellFormed(norm.scheduled_arrival)
    /\ Val(norm.scheduled_arrival[1]) = 47
    /\ norm.actual % Day = 0
    /\ ~IsNone(norm.scheduled_timestamp)
    /\ Abs(norm.actual - Anchor(norm.scheduled_arrival, norm.actual)) > 36 * Hour
    /\ Abs(norm.actual - Val(Val(norm.scheduled_timestamp))) >= 23 * Hour

\* C15: for the same stored vehicle-position row and the same schedule
\* entry, the serving path and the training path compute the same
\* delay_minutes.
C15_SameDelayBothPaths ==
    (Answered /\ ~IsNone(final_df)) =>
        \A r \in Val(final_df) : \A k \in DOMAIN response.rows :
            (\E i \in StoredAs(r) : RowOf(i) = response.rows[k]) =>
                LET row == response.rows[k]
                    best_candidate == ServeBestCandidate(row.sched, row.actual)
                IN  /\ ~IsNone(best_candidate)
                    /\ RatEq(Minutes(Val(row.actual) - Val(best_candidate)),
                             r.delay_minutes)

\* C16: the health check never reports a healthy status while the model is
\* not loaded.
C16_UnhealthyWithoutModel ==
    (~IsNone(response.health) /\ IsNone(model)) =>
        Val(response.health).status # "healthy"

\* C17: a /predict request whose direction_id is no integer or is neither 0
\* nor 1 is answered with a validation error and reaches neither feature
\* assembly nor the model (stated of a service whose model is loaded).
C17_BadDirectionRejected ==
    /\ (response # NoResponse /\ IsNone(response.req) /\ IsNone(response.health)) =>
          response.status = ValidationError /\ response.input_array = << >>
    /\ (response # NoResponse /\ ~IsNone(response.req) /\ ~IsNone(model)) =>
          (Val(response.req).direction_id \notin { 0, 1 } =>
              /\ response.status = ValidationError
              /\ response.input_array = << >>)

\* two results of get_latest_live_features hold the same six values
SameLiveValues(a, b) ==
    /\ RatEq(a.temp, b.temp) /\ RatEq(a.precip_mm, b.precip_mm)
    /\ RatEq(a.wind_speed, b.wind_speed)
    /\ RatEq(a.congestion, b.congestion)
    /\ RatEq(a.headway_minutes, b.headway_minutes)
    /\ RatEq(a.upstream_delay, b.upstream_delay)

\* C18: handling a /predict request leaves the observation store, the
\* weather store, the loaded model and the loaded feature-name list as they
\* were, and the feature values it computes are the ones every request with
\* the same inputs computes against the same store contents and clock.
C18_PredictOnlyReads ==
    [][ (response = NoResponse /\ response' # NoResponse /\ ~IsNone(response'.req)) =>
          /\ vehicle_positions' = vehicle_positions
          /\ weather_logs' = weather_logs
          /\ model' = model
          /\ feature_columns' = feature_columns
          /\ ~IsNone(response'.live) =>
               \A rows \in PerformanceQuery(Val(response'.req).route_id) :
                   SameLiveValues(
                       get_latest_live_features(WeatherQuery, rows,
                                                Val(response'.req).stop_id,
                                                response'.clock),
                       Val(response'.live)) ]_vars

\* the column the assembler marks for a requested route: its own column
\* when the list has it, else the first route column of the list, if any
MarkedRoute(route_id) ==
    IF InSeq(Name("route_id_", route_id), feature_columns)
    THEN Name("route_id_", route_id)
    ELSE IF \E i \in DOMAIN feature_columns : StartsWith(feature_columns[i], "route_id_")
         THEN feature_columns[FirstRouteIndex]
         ELSE Name("route_id_", route_id)

OnesAt(prefix) ==
    { i \in DOMAIN response.input_array :
        StartsWith(feature_columns[i], prefix) /\ response.input_array[i] = One }

\* C19: for each name of the feature list the assembler emits the live value
\* if the name is one of the ten live features, else 1.0 if it is the target
\* route column (after the fallback) or the target direction column, else
\* 0.0; so at most one route_id_ column and at most one direction_id_ column
\* are 1.0.
C19_AssemblerCases ==
    Answered =>
        LET req == Val(response.req)
            live == Val(response.live)
            dir == Name("direction_id_", FloatStr(req.direction_id))
        IN  /\ \A i \in DOMAIN feature_columns :
                 LET col == feature_columns[i] IN
                 response.input_array[i] =
                     IF col \in LiveNames THEN LiveValue(col, response.clock, live)
                     ELSE IF col = MarkedRoute(req.route_id) \/ col = dir THEN One
                     ELSE Zero
            /\ Cardinality(OnesAt("route_id_")) <= 1
            /\ Cardinality(OnesAt("direction_id_")) <= 1

\* an answer over a list with the headway column, two route columns and two
\* direction columns, one of each marked, and a headway that is no default
C19_Witness ==
    /\ Answered
    /\ \E i \in DOMAIN feature_columns :
          /\ feature_columns[i] = Plain("headway_minutes")
          /\ response.input_array[i] # Rat(10, 1)
    /\ Cardinality(OnesAt("route_id_")) = 1
    /\ Cardinality(OnesAt("direction_id_")) = 1
    /\ Len(RouteColumns(feature_columns)) = 2

\* C20: the model file and the feature-name file are published as one unit:
\* a serving process never holds the model of one training run together with
\* the feature-name list of a different run.
C20_ArtifactsOfOneRun ==
    (started /\ ~IsNone(model) /\ feature_columns # << >>) =>
        feature_columns = ColumnsOfRun(Val(model)[2])

\* C21: the feature-name list a serving process has loaded is, name for name
\* and in the same order, the column list X.columns that a train_model run
\* wrote: the names joined by line breaks, split into lines, stripped and
\* freed of blank lines are the names again.
C21_FeatureNamesRoundTrip ==
    (started /\ feature_columns # << >>) =>
        \E run \in 1..artifacts.runs :
            /\ Len(feature_columns) = Len(ColumnsOfRun(run))
            /\ \A k \in 1..Len(feature_columns) :
                  Text(feature_columns[k]) = Text(ColumnsOfRun(run)[k])

\* the service has read the file of the second run: eight continuous names,
\* two routes, one of them "Green-B", and two directions
C21_Witness ==
    /\ started
    /\ artifacts.features_file = Some(FileOf(ColumnsOfRun(2)))
    /\ feature_columns = ColumnsOfRun(2)
    /\ Len(feature_columns) = 12
    /\ Len(SplitLines(Val(artifacts.features_file))) = 12

\* the HTTP attempts among the first k events of the call
GetsUpTo(events, k) == { i \in 1..k : events[i].kind = "get" }

Returned == ~IsNone(collector.call.result)

\* what the call has done so far is what the retry loop allows
RetryDiscipline ==
    LET call   == collector.call
        events == call.events
        n      == Len(events)
        Failed(i) == events[i].kind = "get" /\ IsNone(events[i].payload)
    IN  /\ Cardinality(GetsUpTo(events, n)) <= call.retries
        \* a success is the last thing the call does, and its payload is returned
        /\ \A i \in 1..n :
              (events[i].kind = "get" /\ ~IsNone(events[i].payload)) =>
                  i = n /\ call.result = events[i].payload
        \* a sleep follows a failed attempt, lasts backoff^attempt, and the
        \* next attempt follows it
        /\ \A i \in 1..n :
              events[i].kind = "sleep" =>
                  /\ i > 1 /\ Failed(i - 1)
                  /\ events[i].seconds =
                        Pow(call.backoff, Cardinality(GetsUpTo(events, i)) - 1)
                  /\ IF i < n THEN events[i + 1].kind = "get" ELSE ~Returned
        \* a failed attempt that is not the last allowed one is followed by a sleep
        /\ \A i \in 1..n :
              (Failed(i) /\ Cardinality(GetsUpTo(events, i)) < call.retries) =>
                  i < n /\ events[i + 1].kind = "sleep"
        \* the call returns after a success or after `retries` failures, and
        \* then with the empty payload
        /\ Returned =>
              \/ ~IsNone(events[n].payload)
              \/ /\ Cardinality(GetsUpTo(events, n)) = call.retries
                 /\ \A i \in GetsUpTo(events, n) : Failed(i)
                 /\ call.result = Some(EmptyPayload(call.endpoint))
        /\ ~Returned => \A i \in GetsUpTo(events, n) : Failed(i)

\* C22: a call of get_vehicle_positions or get_weather makes at most `retries`
\* HTTP attempts, returns the payload of the first successful one at once,
\* sleeps backoff^attempt seconds between a failed attempt and the next one
\* and never after the last, and after `retries` failures returns the empty
\* list or the empty dict; every call returns.
C22_BoundedRetries == []RetryDiscipline /\ <>Returned

\* a get_vehicle_positions call with three retries has failed three times,
\* slept 1 and then 2 seconds, and returned the empty list
C22_Witness ==
    LET call == collector.call
    IN  /\ call.endpoint = "vehicles" /\ call.retries = 3 /\ call.backoff = 2
        /\ call.events = << Get(None), Sleep(1), Get(None), Sleep(2), Get(None) >>
        /\ call.result = Some(<< >>)

\* a get_weather call has failed once, slept, and returned the weather of
\* its second attempt
C22_WitnessSuccess ==
    LET call == collector.call
    IN  /\ call.endpoint = "weather" /\ call.backoff = 3
        /\ Len(call.events) = 3
        /\ call.events[2] = Sleep(1)
        /\ ~IsNone(call.events[3].payload)
        /\ call.result = call.events[3].payload
        /\ ~IsNone(Val(call.result))

\* the committed rows that carry the timestamp of a poll
RowsOfPoll(table, timestamp) ==
    SelectSeq(table, LAMBDA row : row.timestamp = timestamp)

\* every row a poll was to write
VehicleRowsOf(poll) ==
    [ k \in 1..Len(poll.vehicles) |-> VehicleRow(poll.vehicles[k], poll.timestamp) ]
WeatherRowsOf(poll) ==
    IF IsNone(poll.weather) THEN << >>
    ELSE << WeatherRow(Val(poll.weather), poll.timestamp) >>

\* C23: log_data_to_db is all-or-nothing: of a poll whose call has returned,
\* the committed tables hold the weather row (if any) and every vehicle row,
\* or no row at all; and while the call is still running they hold no row of
\* its poll, so no reader sees a part of a poll.
C23_AllOrNothing ==
    /\ \A i \in 1..Len(collector.polls) :
          LET poll == collector.polls[i]
              seen_vehicles == RowsOfPoll(vehicle_positions, poll.timestamp)
              seen_weather  == RowsOfPoll(weather_logs, poll.timestamp)
          IN  IF poll.committed
              THEN seen_vehicles = VehicleRowsOf(poll) /\ seen_weather = WeatherRowsOf(poll)
              ELSE seen_vehicles = << >> /\ seen_weather = << >>
    /\ collector.pc # "idle" =>
          /\ RowsOfPoll(vehicle_positions, now) = << >>
          /\ RowsOfPoll(weather_logs, now) = << >>

\* one poll with a weather row and three vehicle rows is committed whole, a
\* later one with the same content was rolled back, and a third call has
\* executed two of its INSERTs and not yet committed
C23_Witness ==
    /\ Len(collector.polls) = 2
    /\ collector.polls[1].committed /\ ~collector.polls[2].committed
    /\ Len(collector.polls[1].vehicles) = 3 /\ ~IsNone(collector.polls[1].weather)
    /\ Len(collector.polls[2].vehicles) = 3 /\ ~IsNone(collector.polls[2].weather)
    /\ Len(vehicle_positions) = 3 /\ Len(weather_logs) = 1
    /\ collector.pc = "insert" /\ collector.executed = 2
    /\ Len(collector.uncommitted.vehicle_positions) = 1

\* the STOPPED_AT pings of a trip at a stop
PingsOf(trip_id, stop_id) ==
    { i \in VehicleQuery : /\ vehicle_positions[i].trip_id = trip_id
                           /\ vehicle_positions[i].stop_id = stop_id }

\* C24: after the de-duplication of extract_raw_data there is at most one row
\* for each (trip_id, stop_id), and it is the earliest STOPPED_AT ping of the
\* trip at the stop, in whatever order the store returned the rows.
C24_FirstPingRetained ==
    ~IsNone(final_df) =>
        \A r \in Val(final_df) :
            /\ \A q \in Val(final_df) :
                  (q.trip_id = r.trip_id /\ q.stop_id = r.stop_id) => q = r
            /\ \A i \in PingsOf(r.trip_id, r.stop_id) :
                  r.actual_timestamp + TzShiftHours * Hour
                      <= vehicle_positions[i].timestamp

\* C25: the headway_minutes that get_latest_live_features returns lies in
\* [0, 120], whatever the store holds and whatever the server's clock reads,
\* observations stamped ahead of that clock included.
C25_HeadwayInRange ==
    Answered =>
        /\ ~RatLess(Val(response.live).headway_minutes, Zero)
        /\ ~RatLess(Rat(HeadwayCap, 1), Val(response.live).headway_minutes)

\* C26: for a request with direction_id 0 or 1 and a trained feature list
\* that has a one-hot column for that direction, named with an integer label
\* (direction_id_0) or with a float label (direction_id_0.0), exactly that
\* column of the direction block is 1.0 in the assembled vector, so that the
\* block is never all zeros.
C26_DirectionColumnSet ==
    (Answered /\ Val(response.req).direction_id \in { 0, 1 }) =>
        LET columns == response.columns
            d       == Val(response.req).direction_id
            block   == { k \in DOMAIN columns : StartsWith(columns[k], "direction_id_") }
            mine    == { k \in block : columns[k] \in { DirectionColumn(d, TRUE),
                                                        DirectionColumn(d, FALSE) } }
        IN  mine # { } =>
                \A k \in block :
                    response.input_array[k] = IF k \in mine THEN One ELSE Zero

=============================================================================
